---- MODULE Spec2Model ----
(***************************************************************************)
(* A model of findmegoogleip.py: the pipeline FindMeIP.run                 *)
(*   get_dns_servers -> lookup_ips -> ping -> check_service -> show_results*)
(* each stage fanning out to threads through FindMeIP.run_threads.         *)
(*                                                                         *)
(* Text is modelled as a sequence of one-character strings, so that split, *)
(* startswith, replace and float are computed as Python computes them.     *)
(***************************************************************************)
EXTENDS Integers, Sequences, FiniteSets, TLC

(***************************************************************************)
(* Bounds of the model.                                                    *)
(***************************************************************************)
\* the largest number of threads handed to one run_threads batch
MaxTasks == 2
\* the ceilings `limit` ranges over (the program passes 20 or 200; the model
\* ranges over small ceilings so that batches larger than the ceiling occur)
MaxLimit == 2
\* round-trip times a probe can report are 1..MaxTime
MaxTime == 2

VARIABLES
    stage,          \* the method of FindMeIP.run the main thread is in
    pc,             \* the main thread's position inside that method
    i,              \* index of the for loops of run_threads
    ceiling,        \* the limit argument of each run_threads call site
    threads,        \* the list `threads` of the batch: each thread's argument
    ts,             \* each thread's position in its run body
    out,            \* each thread's local `output` / `data`
    loc,            \* each thread's local `ips` / `servers` (parsed output)
    world,          \* what the outside world answered each thread
    lock,           \* threading.Lock of the batch: 0 free, else the holder
    runs,           \* how many times each thread's run body was entered
    locations,      \* FindMeIP.locations
    dns_servers,    \* FindMeIP.dns_servers (list)
    resolved_ips,   \* FindMeIP.resolved_ips (set)
    ping_results,   \* the dict ping_results of FindMeIP.ping, in insertion order
    ip_with_time,   \* FindMeIP.ip_with_time (list of (ip, rtt))
    available_ips,  \* FindMeIP.available_ips (list)
    reachable,      \* FindMeIP.reachable (list)
    report          \* what show_results printed

vars == <<stage, pc, i, ceiling, threads, ts, out, loc, world, lock, runs,
          locations, dns_servers, resolved_ips, ping_results, ip_with_time,
          available_ips, reachable, report>>

(***************************************************************************)
(* Python text operations.                                                 *)
(***************************************************************************)
NL == "\n"

\* s.startswith(p)
StartsWith(s, p) == Len(s) >= Len(p) /\ SubSeq(s, 1, Len(p)) = p

\* the first position from k on where sep occurs in s, 0 when there is none
RECURSIVE FindFrom(_, _, _)
FindFrom(s, sep, k) ==
    IF k + Len(sep) - 1 > Len(s) THEN 0
    ELSE IF SubSeq(s, k, k + Len(sep) - 1) = sep THEN k
    ELSE FindFrom(s, sep, k + 1)

\* s.find(sep) + 1: the first position where sep occurs in s, 0 when it does not
IndexOf(s, sep) == FindFrom(s, sep, 1)

\* sub in s
Contains(s, sub) == IndexOf(s, sub) # 0

\* s.split(sep): always at least one piece
RECURSIVE Split(_, _)
Split(s, sep) ==
    LET k == IndexOf(s, sep)
    IN  IF k = 0 THEN <<s>>
        ELSE <<SubSeq(s, 1, k - 1)>> \o Split(SubSeq(s, k + Len(sep), Len(s)), sep)

\* s.replace(old, new): every non-overlapping occurrence, left to right
RECURSIVE Replace(_, _, _)
Replace(s, old, new) ==
    LET k == IndexOf(s, old)
    IN  IF k = 0 THEN s
        ELSE SubSeq(s, 1, k - 1) \o new \o Replace(SubSeq(s, k + Len(old), Len(s)), old, new)

\* sep.join(pieces)
RECURSIVE StrJoin(_, _)
StrJoin(pieces, sep) ==
    IF Len(pieces) = 0 THEN <<>>
    ELSE IF Len(pieces) = 1 THEN pieces[1]
    ELSE pieces[1] \o sep \o StrJoin(Tail(pieces), sep)

Digits == <<"0", "1", "2", "3", "4", "5", "6", "7", "8", "9">>

DigitValue(c) == (CHOOSE k \in 1..10 : Digits[k] = c) - 1

IsDigit(c) == \E k \in 1..10 : Digits[k] = c

\* float(s) of the texts the model produces: an unsigned decimal numeral has
\* its value, any other text raises ValueError
FloatOk(s) == Len(s) > 0 /\ \A k \in 1..Len(s) : IsDigit(s[k])

RECURSIVE Float(_)
Float(s) ==
    IF Len(s) = 0 THEN 0
    ELSE 10 * Float(SubSeq(s, 1, Len(s) - 1)) + DigitValue(s[Len(s)])

\* the decimal numeral of n, as the external tools print it
RECURSIVE Numeral(_)
Numeral(n) == IF n < 10 THEN <<Digits[n + 1]>> ELSE Numeral(n \div 10) \o <<Digits[(n % 10) + 1]>>

\* the elements of a list, and the lists that enumerate a set once each
Range(s) == {s[k] : k \in 1..Len(s)}

Orderings(S) == {s \in [1..Cardinality(S) -> S] : Range(s) = S}

(***************************************************************************)
(* Addresses and the text the external ping tool prints.                   *)
(***************************************************************************)
Ip_8_8 == <<"8", ".", "8">>
Ip_1_1 == <<"1", ".", "1">>
Ip_9_9 == <<"9", ".", "9">>

\* addresses that can be in resolved_ips when ping starts
PingIps == {Ip_8_8, Ip_1_1, Ip_9_9}

\* loss percentages a probe of 5 echo requests can measure short of 100
Losses == {0, 20}

NoAnswer == [kind |-> "none", loss |-> 0, time |-> 0]

\* what `ping -c 5 -q` can do: exit non-zero (CalledProcessError), fail to be
\* executed at all (OSError), print its summary, or print something else
PingOutcomes ==
    {[kind |-> k, loss |-> 0, time |-> 0] : k \in {"fail", "oserror", "garbled"}}
        \cup {[kind |-> "ok", loss |-> l, time |-> t] : l \in Losses, t \in 1..MaxTime}

\* the summary of ping: "... , N% loss" on the third line from the end and
\* "rtt = min/avg/max ms" on the second, the text ending with a newline
PingOutput(o) ==
    IF o.kind = "ok"
    THEN <<"P", "I", "N", "G", NL>>
         \o <<"5", " ", "t", "x", ",", " ">> \o Numeral(5 - (o.loss \div 20))
         \o <<" ", "r", "x", ",", " ">> \o Numeral(o.loss)
         \o <<"%", " ", "l", "o", "s", "s", ",", " ", "4", "s", NL>>
         \o <<"r", "t", "t", " ", "=", " ", "0", "/">> \o Numeral(o.time)
         \o <<"/", "9", " ", "m", "s", NL>>
    ELSE <<"P", "I", "N", "G", NL>>

ParseError == [ok |-> FALSE, loss |-> 0, time |-> 0]

\* Ping.parse_ping_result: ok = FALSE when an index or float() raises
parse_ping_result(result) ==
    LET lines == Split(result, <<NL>>)
        n == Len(lines)
    IN  IF n < 3 THEN ParseError
        ELSE
        LET fields == Split(lines[n - 2], <<",", " ">>)
        IN  IF Len(fields) < 3 THEN ParseError
            ELSE
            LET loss == Replace(Split(fields[3], <<" ">>)[1], <<"%">>, <<>>)
                eq == Split(lines[n - 1], <<" ", "=", " ">>)
                quad == Split(eq[Len(eq)], <<"/">>)
            IN  IF Len(quad) < 2 THEN ParseError
                ELSE IF ~FloatOk(loss) \/ ~FloatOk(quad[2]) THEN ParseError
                ELSE [ok |-> TRUE, loss |-> Float(loss), time |-> Float(quad[2])]

(***************************************************************************)
(* FindMeIP.run_threads.                                                   *)
(***************************************************************************)
Tasks == DOMAIN threads

Alive(t) == ts[t] \in {"run", "got", "locked", "wrote"}

Finished(t) == ts[t] \in {"done", "raised"}

\* threading.active_count(): the main thread and every started thread that
\* has not finished
active_count == 1 + Cardinality({t \in Tasks : Alive(t)})

\* the limit argument of the current call of run_threads
limit == IF stage = "get_dns_servers" THEN ceiling.harvest ELSE ceiling.default

\* the throttle letting one thread too many through
ThrottledLate == active_count > limit + 1

\* line 36: threading.active_count() > limit
Throttled == active_count > limit

InBatch == stage \in {"get_dns_servers", "lookup_ips", "ping", "check_service"}

\* the state of a batch when a stage method has built its list of threads
\* and calls run_threads: a new lock, no thread started. Batches of more than
\* MaxTasks threads are not explored.
NewBatch(list) ==
    /\ Len(list) <= MaxTasks
    /\ threads' = list
    /\ ts' = [t \in DOMAIN list |-> "new"]
    /\ out' = [t \in DOMAIN list |-> <<>>]
    /\ loc' = [t \in DOMAIN list |-> <<>>]
    /\ world' = [t \in DOMAIN list |-> NoAnswer]
    /\ runs' = [t \in DOMAIN list |-> 0]
    /\ lock' = 0
    /\ pc' = "launch"
    /\ i' = 1

UNCHANGED_data ==
    UNCHANGED <<locations, dns_servers, resolved_ips, ping_results, ip_with_time,
                available_ips, reachable, report>>

\* line 40: thread.start()
Launch ==
    /\ InBatch /\ pc = "launch" /\ i <= Len(threads)
    /\ ~Throttled
    /\ ts' = [ts EXCEPT ![i] = "run"]
    /\ runs' = [runs EXCEPT ![i] = @ + 1]
    /\ i' = i + 1
    /\ UNCHANGED <<stage, pc, ceiling, threads, out, loc, world, lock>>
    /\ UNCHANGED_data

\* lines 36-38: sleep, then continue with the next thread
Skip ==
    /\ InBatch /\ pc = "launch" /\ i <= Len(threads)
    /\ Throttled
    /\ i' = i + 1
    /\ UNCHANGED <<stage, pc, ceiling, threads, ts, out, loc, world, lock, runs>>
    /\ UNCHANGED_data

\* the first loop is over
LaunchEnd ==
    /\ InBatch /\ pc = "launch" /\ i > Len(threads)
    /\ pc' = "join"
    /\ i' = 1
    /\ UNCHANGED <<stage, ceiling, threads, ts, out, loc, world, lock, runs>>
    /\ UNCHANGED_data

\* a join that returns without waiting for the thread to finish
JoinNoWait ==
    /\ InBatch /\ pc = "join" /\ i <= Len(threads)
    /\ ts[i] # "new"
    /\ i' = i + 1
    /\ UNCHANGED <<stage, pc, ceiling, threads, ts, out, loc, world, lock, runs>>
    /\ UNCHANGED_data

\* line 43: thread.join() returns once the thread has finished
Join ==
    /\ InBatch /\ pc = "join" /\ i <= Len(threads)
    /\ Finished(i)
    /\ i' = i + 1
    /\ UNCHANGED <<stage, pc, ceiling, threads, ts, out, loc, world, lock, runs>>
    /\ UNCHANGED_data

\* line 43: thread.join() of a thread that was never started raises
\* RuntimeError, which nothing catches: run_threads, the stage and run end
JoinUnstarted ==
    /\ InBatch /\ pc = "join" /\ i <= Len(threads)
    /\ ts[i] = "new"
    /\ pc' = "error"
    /\ UNCHANGED <<stage, i, ceiling, threads, ts, out, loc, world, lock, runs>>
    /\ UNCHANGED_data

\* the second loop is over: run_threads returns
JoinEnd ==
    /\ InBatch /\ pc = "join" /\ i > Len(threads)
    /\ pc' = "returned"
    /\ UNCHANGED <<stage, i, ceiling, threads, ts, out, loc, world, lock, runs>>
    /\ UNCHANGED_data

RunThreads == Launch \/ Skip \/ LaunchEnd \/ Join \/ JoinUnstarted \/ JoinEnd

(***************************************************************************)
(* Ping.run and FindMeIP.ping.                                             *)
(***************************************************************************)
\* d[k] = v on a dict kept in insertion order: a key already there keeps its
\* place
DictSet(d, k, v) ==
    IF \E j \in 1..Len(d) : d[j].ip = k
    THEN [j \in 1..Len(d) |-> IF d[j].ip = k THEN [ip |-> k, loss |-> v.loss, time |-> v.time] ELSE d[j]]
    ELSE Append(d, [ip |-> k, loss |-> v.loss, time |-> v.time])

\* line 192: subprocess.check_output(["ping", ...])
PingCall ==
    \E t \in Tasks :
    /\ stage = "ping" /\ ts[t] = "run"
    /\ \E o \in PingOutcomes :
        /\ world' = [world EXCEPT ![t] = o]
        /\ IF o.kind = "fail" THEN ts' = [ts EXCEPT ![t] = "done"] /\ out' = out
           ELSE IF o.kind = "oserror" THEN ts' = [ts EXCEPT ![t] = "raised"] /\ out' = out
           ELSE ts' = [ts EXCEPT ![t] = "got"] /\ out' = [out EXCEPT ![t] = PingOutput(o)]
    /\ UNCHANGED <<stage, pc, i, ceiling, threads, loc, lock, runs>>
    /\ UNCHANGED_data

\* line 193: self.lock.acquire()
PingAcquire ==
    \E t \in Tasks :
    /\ stage = "ping" /\ ts[t] = "got"
    /\ lock = 0
    /\ lock' = t
    /\ ts' = [ts EXCEPT ![t] = "locked"]
    /\ UNCHANGED <<stage, pc, i, ceiling, threads, out, loc, world, runs>>
    /\ UNCHANGED_data

\* line 194: self.store[self.server] = self.parse_ping_result(...); what
\* parse_ping_result raises is not caught and ends the thread, the lock held
PingStore ==
    \E t \in Tasks :
    /\ stage = "ping" /\ ts[t] = "locked"
    /\ LET r == parse_ping_result(out[t])
       IN  IF r.ok
           THEN /\ ping_results' = DictSet(ping_results, threads[t], r)
                /\ ts' = [ts EXCEPT ![t] = "wrote"]
           ELSE /\ ping_results' = ping_results
                /\ ts' = [ts EXCEPT ![t] = "raised"]
    /\ UNCHANGED <<stage, pc, i, ceiling, threads, out, loc, world, lock, runs>>
    /\ UNCHANGED <<locations, dns_servers, resolved_ips, ip_with_time,
                   available_ips, reachable, report>>

\* line 195: self.lock.release()
PingRelease ==
    \E t \in Tasks :
    /\ stage = "ping" /\ ts[t] = "wrote"
    /\ lock' = 0
    /\ ts' = [ts EXCEPT ![t] = "done"]
    /\ UNCHANGED <<stage, pc, i, ceiling, threads, out, loc, world, runs>>
    /\ UNCHANGED_data

PingRun == PingCall \/ PingAcquire \/ PingStore \/ PingRelease

\* lines 65-70: one Ping per element of the set resolved_ips, in whatever
\* order the set iterates
PingEnter ==
    /\ stage = "ping" /\ pc = "enter"
    /\ ping_results' = <<>>
    /\ \E list \in Orderings(resolved_ips) : NewBatch(list)
    /\ UNCHANGED <<stage, ceiling>>
    /\ UNCHANGED <<locations, dns_servers, resolved_ips, ip_with_time,
                   available_ips, reachable, report>>

\* the filter of line 73 left out
ZeroLossUnfiltered(d) == [j \in DOMAIN d |-> <<d[j].ip, d[j].time>>]

\* lines 72-74: the records with loss == 0, in the order of the dict
RECURSIVE ZeroLoss(_)
ZeroLoss(d) ==
    IF Len(d) = 0 THEN <<>>
    ELSE IF d[1].loss = 0 THEN <<<<d[1].ip, d[1].time>>>> \o ZeroLoss(Tail(d))
    ELSE ZeroLoss(Tail(d))

\* an insertion that puts x before the elements of equal key
InsertByTimeUnstable(x, s) ==
    LET k == Cardinality({j \in 1..Len(s) : s[j][2] < x[2]})
    IN  SubSeq(s, 1, k) \o <<x>> \o SubSeq(s, k + 1, Len(s))

\* where sorted() puts x in an already sorted list: after every element
\* whose key is not greater
InsertByTime(x, s) ==
    LET k == Cardinality({j \in 1..Len(s) : s[j][2] <= x[2]})
    IN  SubSeq(s, 1, k) \o <<x>> \o SubSeq(s, k + 1, Len(s))

\* line 76: sorted(list, key=lambda x: x[1]), a stable sort
RECURSIVE SortedByTime(_)
SortedByTime(s) ==
    IF Len(s) = 0 THEN <<>>
    ELSE InsertByTime(s[Len(s)], SortedByTime(SubSeq(s, 1, Len(s) - 1)))

\* lines 72-77 of FindMeIP.ping, after run_threads returned
PingRank ==
    /\ stage = "ping" /\ pc = "returned"
    /\ ip_with_time' = SortedByTime(ip_with_time \o ZeroLoss(ping_results))
    /\ available_ips' = [j \in DOMAIN ip_with_time' |-> ip_with_time'[j][1]]
    /\ stage' = "check_service"
    /\ pc' = "enter"
    /\ UNCHANGED <<i, ceiling, threads, ts, out, loc, world, lock, runs>>
    /\ UNCHANGED <<locations, dns_servers, resolved_ips, ping_results, reachable, report>>

(***************************************************************************)
(* The ping stage on its own: FindMeIP.ping entered with any resolved_ips  *)
(* of at most MaxTasks addresses and any ceiling.                          *)
(***************************************************************************)
Ceilings == [harvest : 1..MaxLimit, default : 1..MaxLimit]

\* nothing printed yet
NoReport == [kind |-> "nothing", count |-> 0, ordered |-> <<>>, count2 |-> 0, line |-> <<>>]

NoBatch ==
    /\ threads = <<>> /\ ts = <<>> /\ out = <<>> /\ loc = <<>> /\ world = <<>>
    /\ runs = <<>> /\ lock = 0 /\ i = 1

InitPing ==
    /\ stage = "ping" /\ pc = "enter"
    /\ NoBatch
    /\ ceiling \in {c \in Ceilings : c.harvest = 1}
    /\ locations = <<>>
    /\ dns_servers = <<>>
    /\ resolved_ips \in {S \in SUBSET PingIps : Cardinality(S) <= MaxTasks}
    /\ ping_results = <<>>
    /\ ip_with_time = <<>>
    /\ available_ips = <<>>
    /\ reachable = <<>>
    /\ report = NoReport

NextPing == PingEnter \/ RunThreads \/ PingRun \/ PingRank

SpecPing == InitPing /\ [][NextPing]_vars

(***************************************************************************)
(* NsLookup.run, NsLookup.parse_nslookup_result and FindMeIP.lookup_ips.   *)
(***************************************************************************)
Ip_4_4 == <<"4", ".", "4">>
Ip_74_1 == <<"7", "4", ".", "1">>
Ip_173_2 == <<"1", "7", "3", ".", "2">>
Ip_174_1 == <<"1", "7", "4", ".", "1">>

\* the resolvers dns_servers can hold when lookup_ips starts
Resolvers == {Ip_9_9, Ip_4_4}

\* the answers a resolver can give for the name
AnswerLists ==
    {<<>>, <<Ip_74_1, Ip_8_8>>, <<Ip_8_8, Ip_173_2, Ip_174_1>>}

\* line 60: the name every NsLookup is given
TargetName == <<"g", "o", "o", "g", "l", "e", ".", "c", "o", "m">>

AddressPrefix == <<"A", "d", "d", "r", "e", "s", "s", ":", " ">>

\* what `nslookup name server` can do: exit non-zero (CalledProcessError),
\* print nothing, or print a transcript in one of two layouts
NsOutcomes ==
    {[kind |-> k, layout |-> "none", ips |-> <<>>] : k \in {"fail", "empty"}}
        \cup {[kind |-> "ok", layout |-> l, ips |-> a] : l \in {"spaced", "dense"}, a \in AnswerLists}

RECURSIVE AnswerText(_, _)
AnswerText(ips, named) ==
    IF Len(ips) = 0 THEN <<>>
    ELSE (IF named THEN <<"N", "a", "m", "e", ":", "\t", "g", NL>> ELSE <<>>)
         \o AddressPrefix \o ips[1] \o <<NL>> \o AnswerText(Tail(ips), named)

\* the transcript of nslookup for `server`: two lines that name the resolver,
\* then the answers. In the layout "spaced" the resolver lines are tabbed and
\* a blank line and Name: lines separate the answers; in the layout "dense"
\* every address line reads "Address: <ip>" and nothing separates them.
NsOutput(o, server) ==
    IF o.kind # "ok" THEN <<>>
    ELSE IF o.layout = "spaced"
    THEN <<"S", "e", "r", "v", "e", "r", ":", "\t">> \o server \o <<NL>>
         \o <<"A", "d", "d", "r", "e", "s", "s", ":", "\t">> \o server \o <<"#", "5", "3", NL>>
         \o <<NL>> \o AnswerText(o.ips, TRUE)
    ELSE <<"S", "e", "r", "v", "e", "r", ":", " ">> \o server \o <<NL>>
         \o AddressPrefix \o server \o <<NL>>
         \o AnswerText(o.ips, FALSE)

\* del lines[k], k counted from 0
DelAt(lines, k) == SubSeq(lines, 1, k) \o SubSeq(lines, k + 2, Len(lines))

\* lines 176-178: the lines that start with 'Address: ', that prefix removed
RECURSIVE AddressesOf(_)
AddressesOf(lines) ==
    IF Len(lines) = 0 THEN <<>>
    ELSE IF StartsWith(lines[1], AddressPrefix)
         THEN <<Replace(lines[1], AddressPrefix, <<>>)>> \o AddressesOf(Tail(lines))
         ELSE AddressesOf(Tail(lines))

\* NsLookup.parse_nslookup_result: del lines[0], then del lines[1] of what is
\* left; ok = FALSE when the second del raises IndexError
parse_nslookup_result(result) ==
    LET lines == Split(result, <<NL>>)
        rest == DelAt(lines, 0)
    IN  IF Len(rest) < 2 THEN [ok |-> FALSE, ips |-> <<>>]
        ELSE [ok |-> TRUE, ips |-> AddressesOf(DelAt(rest, 1))]

\* the exclusion with the second prefix forgotten
ExcludedOnly74(name, ip) ==
    Contains(name, <<"g", "o", "o", "g", "l", "e">>) /\ StartsWith(ip, <<"7", "4", ".">>)

\* line 162
Excluded(name, ip) ==
    /\ Contains(name, <<"g", "o", "o", "g", "l", "e">>)
    /\ (StartsWith(ip, <<"7", "4", ".">>) \/ StartsWith(ip, <<"1", "7", "3", ".">>))

\* lines 157-158: check_output, then parse_nslookup_result; an IndexError of
\* the parser is not caught and ends the thread
NsCall ==
    \E t \in Tasks :
    /\ stage = "lookup_ips" /\ ts[t] = "run"
    /\ \E o \in NsOutcomes :
        /\ world' = [world EXCEPT ![t] = o]
        /\ IF o.kind = "fail"
           THEN ts' = [ts EXCEPT ![t] = "done"] /\ out' = out /\ loc' = loc
           ELSE LET text == NsOutput(o, threads[t])
                    r == parse_nslookup_result(text)
                IN  /\ out' = [out EXCEPT ![t] = text]
                    /\ loc' = [loc EXCEPT ![t] = r.ips]
                    /\ ts' = [ts EXCEPT ![t] = IF r.ok THEN "got" ELSE "raised"]
    /\ UNCHANGED <<stage, pc, i, ceiling, threads, lock, runs>>
    /\ UNCHANGED_data

\* line 159: self.lock.acquire()
NsAcquire ==
    \E t \in Tasks :
    /\ stage = "lookup_ips" /\ ts[t] = "got"
    /\ lock = 0
    /\ lock' = t
    /\ ts' = [ts EXCEPT ![t] = "locked"]
    /\ UNCHANGED <<stage, pc, i, ceiling, threads, out, loc, world, runs>>
    /\ UNCHANGED_data

\* lines 160-164: every parsed address that is not excluded is added
NsStore ==
    \E t \in Tasks :
    /\ stage = "lookup_ips" /\ ts[t] = "locked"
    /\ resolved_ips' = resolved_ips \cup {ip \in Range(loc[t]) : ~Excluded(TargetName, ip)}
    /\ ts' = [ts EXCEPT ![t] = "wrote"]
    /\ UNCHANGED <<stage, pc, i, ceiling, threads, out, loc, world, lock, runs>>
    /\ UNCHANGED <<locations, dns_servers, ping_results, ip_with_time,
                   available_ips, reachable, report>>

\* line 165: self.lock.release()
NsRelease ==
    \E t \in Tasks :
    /\ stage = "lookup_ips" /\ ts[t] = "wrote"
    /\ lock' = 0
    /\ ts' = [ts EXCEPT ![t] = "done"]
    /\ UNCHANGED <<stage, pc, i, ceiling, threads, out, loc, world, runs>>
    /\ UNCHANGED_data

NsRun == NsCall \/ NsAcquire \/ NsStore \/ NsRelease

\* lines 58-62: one NsLookup per entry of dns_servers, in its order
LookupEnter ==
    /\ stage = "lookup_ips" /\ pc = "enter"
    /\ NewBatch(dns_servers)
    /\ UNCHANGED <<stage, ceiling>>
    /\ UNCHANGED_data

\* lookup_ips returns and run goes on to ping (lines 98-99)
LookupReturn ==
    /\ stage = "lookup_ips" /\ pc = "returned"
    /\ stage' = "ping"
    /\ pc' = "enter"
    /\ UNCHANGED <<i, ceiling, threads, ts, out, loc, world, lock, runs>>
    /\ UNCHANGED_data

(***************************************************************************)
(* The lookup stage on its own: FindMeIP.lookup_ips entered with any       *)
(* dns_servers of at most MaxTasks resolvers and any ceiling.              *)
(***************************************************************************)
ListsOver(S, n) == UNION {[1..k -> S] : k \in 0..n}

InitLookup ==
    /\ stage = "lookup_ips" /\ pc = "enter"
    /\ NoBatch
    /\ ceiling \in {c \in Ceilings : c.harvest = 1}
    /\ locations = <<>>
    /\ dns_servers \in ListsOver(Resolvers, MaxTasks)
    /\ resolved_ips = {}
    /\ ping_results = <<>>
    /\ ip_with_time = <<>>
    /\ available_ips = <<>>
    /\ reachable = <<>>
    /\ report = NoReport

NextLookup == LookupEnter \/ RunThreads \/ NsRun \/ LookupReturn

SpecLookup == InitLookup /\ [][NextLookup]_vars

(***************************************************************************)
(* ServiceCheck.run, FindMeIP.check_service and FindMeIP.show_results.     *)
(***************************************************************************)
\* what the TLS connect of lines 116-117 can do: complete the handshake,
\* raise ssl.CertificateError or socket.timeout (both caught), or raise
\* another error such as ConnectionRefusedError (not caught)
CheckOutcomes ==
    {[kind |-> k, loss |-> 0, time |-> 0] : k \in {"ok", "cert", "timeout", "refused"}}

\* a connect whose certificate error or timeout is taken for a handshake
CheckCallAcceptsAll ==
    \E t \in Tasks :
    /\ stage = "check_service" /\ ts[t] = "run"
    /\ \E o \in CheckOutcomes :
        /\ world' = [world EXCEPT ![t] = o]
        /\ ts' = [ts EXCEPT ![t] = IF o.kind = "refused" THEN "raised" ELSE "got"]
    /\ UNCHANGED <<stage, pc, i, ceiling, threads, out, loc, lock, runs>>
    /\ UNCHANGED_data

\* lines 114-117 and the except clause of line 121
CheckCall ==
    \E t \in Tasks :
    /\ stage = "check_service" /\ ts[t] = "run"
    /\ \E o \in CheckOutcomes :
        /\ world' = [world EXCEPT ![t] = o]
        /\ ts' = [ts EXCEPT ![t] = IF o.kind = "ok" THEN "got"
                                   ELSE IF o.kind = "refused" THEN "raised"
                                   ELSE "done"]
    /\ UNCHANGED <<stage, pc, i, ceiling, threads, out, loc, lock, runs>>
    /\ UNCHANGED_data

\* line 118: self.lock.acquire()
CheckAcquire ==
    \E t \in Tasks :
    /\ stage = "check_service" /\ ts[t] = "got"
    /\ lock = 0
    /\ lock' = t
    /\ ts' = [ts EXCEPT ![t] = "locked"]
    /\ UNCHANGED <<stage, pc, i, ceiling, threads, out, loc, world, runs>>
    /\ UNCHANGED_data

\* line 119: self.servicing.append(self.ip)
CheckStore ==
    \E t \in Tasks :
    /\ stage = "check_service" /\ ts[t] = "locked"
    /\ reachable' = Append(reachable, threads[t])
    /\ ts' = [ts EXCEPT ![t] = "wrote"]
    /\ UNCHANGED <<stage, pc, i, ceiling, threads, out, loc, world, lock, runs>>
    /\ UNCHANGED <<locations, dns_servers, resolved_ips, ping_results, ip_with_time,
                   available_ips, report>>

\* line 120: self.lock.release()
CheckRelease ==
    \E t \in Tasks :
    /\ stage = "check_service" /\ ts[t] = "wrote"
    /\ lock' = 0
    /\ ts' = [ts EXCEPT ![t] = "done"]
    /\ UNCHANGED <<stage, pc, i, ceiling, threads, out, loc, world, runs>>
    /\ UNCHANGED_data

CheckRun == CheckCall \/ CheckAcquire \/ CheckStore \/ CheckRelease

\* lines 80-84: one ServiceCheck per entry of available_ips, in its order
CheckEnter ==
    /\ stage = "check_service" /\ pc = "enter"
    /\ NewBatch(available_ips)
    /\ UNCHANGED <<stage, ceiling>>
    /\ UNCHANGED_data

\* check_service returns and run goes on to show_results (lines 100-101)
CheckReturn ==
    /\ stage = "check_service" /\ pc = "returned"
    /\ stage' = "show_results"
    /\ pc' = "enter"
    /\ UNCHANGED <<i, ceiling, threads, ts, out, loc, world, lock, runs>>
    /\ UNCHANGED_data

\* the list of line 88 without its condition
reachable_ip_with_time_unfiltered == ip_with_time

\* line 88: [(ip, rtt) for (ip, rtt) in self.ip_with_time if ip in self.reachable]
reachable_ip_with_time ==
    SelectSeq(ip_with_time, LAMBDA e : e[1] \in Range(reachable))

\* show_results without the test of line 87: the lists are printed even when
\* reachable is empty
ShowResultsUnconditional ==
    /\ stage = "show_results" /\ pc = "enter"
    /\ report' = [kind |-> "list",
                  count |-> Len(reachable_ip_with_time),
                  ordered |-> reachable_ip_with_time,
                  count2 |-> Len(reachable),
                  line |-> StrJoin(reachable, <<"|">>)]
    /\ stage' = "done"
    /\ pc' = "returned"
    /\ UNCHANGED <<i, ceiling, threads, ts, out, loc, world, lock, runs>>
    /\ UNCHANGED <<locations, dns_servers, resolved_ips, ping_results, ip_with_time,
                   available_ips, reachable>>

\* lines 87-94: what show_results prints
ShowResults ==
    /\ stage = "show_results" /\ pc = "enter"
    /\ report' = IF Len(reachable) > 0
                 THEN [kind |-> "list",
                       count |-> Len(reachable_ip_with_time),
                       ordered |-> reachable_ip_with_time,
                       count2 |-> Len(reachable),
                       line |-> StrJoin(reachable, <<"|">>)]
                 ELSE [kind |-> "none", count |-> 0, ordered |-> <<>>,
                       count2 |-> 0, line |-> <<>>]
    /\ stage' = "done"
    /\ pc' = "returned"
    /\ UNCHANGED <<i, ceiling, threads, ts, out, loc, world, lock, runs>>
    /\ UNCHANGED <<locations, dns_servers, resolved_ips, ping_results, ip_with_time,
                   available_ips, reachable>>

(***************************************************************************)
(* The reachability stage and the report on their own: check_service       *)
(* entered with any ranked list ping can leave, of at most MaxTasks        *)
(* addresses, and any ceiling.                                             *)
(***************************************************************************)
\* the lists ping can leave in ip_with_time: addresses of resolved_ips, each
\* once, ascending by round-trip time
RankedLists ==
    {r \in ListsOver(PingIps \X (1..MaxTime), MaxTasks) :
        /\ \A j, k \in DOMAIN r : j # k => r[j][1] # r[k][1]
        /\ \A j, k \in DOMAIN r : j < k => r[j][2] <= r[k][2]}

InitCheck ==
    /\ stage = "check_service" /\ pc = "enter"
    /\ NoBatch
    /\ ceiling \in {c \in Ceilings : c.harvest = 1}
    /\ locations = <<>>
    /\ dns_servers = <<>>
    /\ resolved_ips = {}
    /\ ping_results = <<>>
    /\ ip_with_time \in RankedLists
    /\ available_ips = [j \in DOMAIN ip_with_time |-> ip_with_time[j][1]]
    /\ reachable = <<>>
    /\ report = NoReport

NextCheck == CheckEnter \/ RunThreads \/ CheckRun \/ CheckReturn \/ ShowResults

SpecCheck == InitCheck /\ [][NextCheck]_vars

(***************************************************************************)
(* GetDnsServer.run and FindMeIP.get_dns_servers.                          *)
(***************************************************************************)
\* region codes that can be given on the command line
Regions == {"kr", "us"}

\* line 49: the url of a region
Url(location) == <<"http://public-dns.tk/nameserver/", location, ".json">>

Ip_v6 == <<":", ":", "1">>

Entry(ip) == [has_ip |-> TRUE, ip |-> ip]

\* an object of the JSON array that has no 'ip' field
EntryNoIp == [has_ip |-> FALSE, ip |-> <<>>]

\* the arrays the directory can answer for a region
ServerLists ==
    {<<>>, <<Entry(Ip_9_9)>>, <<Entry(Ip_v6), Entry(Ip_4_4)>>,
     <<Entry(Ip_9_9), EntryNoIp, Entry(Ip_4_4)>>}

\* what urlopen and json.loads can do: raise IOError (caught), read a body
\* that is no JSON (json.loads raises ValueError, not caught), or give an array
GetOutcomes ==
    {[kind |-> k, servers |-> <<>>] : k \in {"ioerror", "badjson"}}
        \cup {[kind |-> "ok", servers |-> l] : l \in ServerLists}

\* lines 135-136 and the except clause of line 142
GetCall ==
    \E t \in Tasks :
    /\ stage = "get_dns_servers" /\ ts[t] = "run"
    /\ \E o \in GetOutcomes :
        /\ world' = [world EXCEPT ![t] = o]
        /\ loc' = [loc EXCEPT ![t] = o.servers]
        /\ ts' = [ts EXCEPT ![t] = IF o.kind = "ok" THEN "got"
                                   ELSE IF o.kind = "badjson" THEN "raised"
                                   ELSE "done"]
    /\ UNCHANGED <<stage, pc, i, ceiling, threads, out, lock, runs>>
    /\ UNCHANGED_data

\* an acquire that does not wait for the lock to be free
GetAcquireUnguarded ==
    \E t \in Tasks :
    /\ stage = "get_dns_servers" /\ ts[t] = "got"
    /\ lock' = t
    /\ ts' = [ts EXCEPT ![t] = "locked"]
    /\ UNCHANGED <<stage, pc, i, ceiling, threads, out, loc, world, runs>>
    /\ UNCHANGED_data

\* line 137: self.lock.acquire()
GetAcquire ==
    \E t \in Tasks :
    /\ stage = "get_dns_servers" /\ ts[t] = "got"
    /\ lock = 0
    /\ lock' = t
    /\ ts' = [ts EXCEPT ![t] = "locked"]
    /\ UNCHANGED <<stage, pc, i, ceiling, threads, out, loc, world, runs>>
    /\ UNCHANGED_data

\* the entries the loop of lines 138-140 reaches: all of them, or those
\* before the first one without an 'ip' field, where server['ip'] raises
Reached(servers) ==
    LET bad == {k \in DOMAIN servers : ~servers[k].has_ip}
    IN  IF bad = {} THEN servers
        ELSE SubSeq(servers, 1, (CHOOSE k \in bad : \A h \in bad : k <= h) - 1)

\* lines 139-140: the ip of every entry whose ip contains a dot
RECURSIVE DottedIps(_)
DottedIps(servers) ==
    IF Len(servers) = 0 THEN <<>>
    ELSE IF Contains(servers[1].ip, <<".">>)
         THEN <<servers[1].ip>> \o DottedIps(Tail(servers))
         ELSE DottedIps(Tail(servers))

\* lines 138-140; a KeyError is not caught and ends the thread, the lock held
GetStore ==
    \E t \in Tasks :
    /\ stage = "get_dns_servers" /\ ts[t] = "locked"
    /\ dns_servers' = dns_servers \o DottedIps(Reached(loc[t]))
    /\ ts' = [ts EXCEPT ![t] = IF Reached(loc[t]) = loc[t] THEN "wrote" ELSE "raised"]
    /\ UNCHANGED <<stage, pc, i, ceiling, threads, out, loc, world, lock, runs>>
    /\ UNCHANGED <<locations, resolved_ips, ping_results, ip_with_time,
                   available_ips, reachable, report>>

\* line 141: self.lock.release()
GetRelease ==
    \E t \in Tasks :
    /\ stage = "get_dns_servers" /\ ts[t] = "wrote"
    /\ lock' = 0
    /\ ts' = [ts EXCEPT ![t] = "done"]
    /\ UNCHANGED <<stage, pc, i, ceiling, threads, out, loc, world, runs>>
    /\ UNCHANGED_data

GetRun == GetCall \/ GetAcquire \/ GetStore \/ GetRelease

\* lines 49-55: one GetDnsServer per location, in the order of locations.
\* locations is the list sys.argv[1:] or a list of one region (lines 207,
\* 213), never the string 'all', so line 48 is not reached.
HarvestEnter ==
    /\ stage = "get_dns_servers" /\ pc = "enter"
    /\ NewBatch([k \in DOMAIN locations |-> Url(locations[k])])
    /\ UNCHANGED <<stage, ceiling>>
    /\ UNCHANGED <<locations, dns_servers, resolved_ips, ping_results, ip_with_time,
                   available_ips, reachable, report>>

\* get_dns_servers returns and run goes on to lookup_ips (lines 97-98)
HarvestReturn ==
    /\ stage = "get_dns_servers" /\ pc = "returned"
    /\ stage' = "lookup_ips"
    /\ pc' = "enter"
    /\ UNCHANGED <<i, ceiling, threads, ts, out, loc, world, lock, runs>>
    /\ UNCHANGED_data

(***************************************************************************)
(* FindMeIP(locations).run(): the state after construction, for any list   *)
(* of at most MaxTasks regions and any ceilings, and the whole pipeline.   *)
(***************************************************************************)
Init ==
    /\ stage = "get_dns_servers" /\ pc = "enter"
    /\ NoBatch
    /\ ceiling \in Ceilings
    /\ locations \in ListsOver(Regions, MaxTasks) \ {<<>>}
    /\ dns_servers = <<>>
    /\ resolved_ips = {}
    /\ ping_results = <<>>
    /\ ip_with_time = <<>>
    /\ available_ips = <<>>
    /\ reachable = <<>>
    /\ report = NoReport

NextHarvest == HarvestEnter \/ RunThreads \/ GetRun \/ HarvestReturn

\* the harvesting stage on its own
SpecHarvest == Init /\ [][NextHarvest]_vars

Next ==
    \/ RunThreads
    \/ HarvestEnter \/ GetRun \/ HarvestReturn
    \/ LookupEnter \/ NsRun \/ LookupReturn
    \/ PingEnter \/ PingRun \/ PingRank
    \/ CheckEnter \/ CheckRun \/ CheckReturn
    \/ ShowResults

Spec == Init /\ [][Next]_vars

(***************************************************************************)
(* Properties of run_threads, checked on the batch of the ping stage.      *)
(***************************************************************************)
BatchOver == pc \in {"returned", "error"}

Running == {t \in Tasks : Alive(t)}

\* the position of x in a list that holds it once
Pos(s, x) == CHOOSE j \in 1..Len(s) : s[j] = x

\* C1: when run_threads is over, every task of the batch has run its body to
\* the end exactly once.
C1_EveryTaskRunOnce ==
    (stage = "ping" /\ BatchOver) => \A t \in Tasks : runs[t] = 1 /\ Finished(t)

\* C2: at every instant at most `limit` tasks of the batch are started and
\* not finished.
C2_AtMostLimitRunning ==
    InBatch => Cardinality(Running) <= limit

C2_Witness ==
    /\ stage = "ping" /\ pc = "launch"
    /\ Len(threads) > limit
    /\ Cardinality(Running) = limit
    /\ i > limit

\* C3: a task whose launch was deferred is launched all the same, so the
\* wait phase never joins a task that was not started.
C3_NoJoinOfUnstarted ==
    (stage = "ping" /\ pc \in {"join", "returned", "error"}) => \A t \in Tasks : ts[t] # "new"

\* a task that can never finish: it waits for the lock, and the thread that
\* holds the lock has ended
Stuck(u) == ts[u] = "got" /\ lock # 0 /\ Finished(lock)

\* C4: a task that raises does not abort the batch: no other task of the
\* batch is left unable to run to completion, so that run_threads can return.
C4_RaiseDoesNotAbort ==
    (stage = "ping" /\ \E t \in Tasks : ts[t] = "raised")
        => \A u \in Tasks : ~Stuck(u)

(***************************************************************************)
(* Properties of FindMeIP.ping.                                            *)
(***************************************************************************)
AfterPing == stage = "check_service" /\ pc = "enter"

ZeroLossProbe(t) == world[t].kind = "ok" /\ world[t].loss = 0

\* C5: after ping every entry of ip_with_time and of available_ips is the
\* address of a probe that measured loss 0; the address of a probe that
\* measured a loss, or that failed, is in neither.
C5_OnlyZeroLoss ==
    AfterPing =>
        /\ \A j \in DOMAIN ip_with_time :
            \E t \in Tasks : threads[t] = ip_with_time[j][1] /\ ZeroLossProbe(t)
        /\ \A j \in DOMAIN available_ips :
            \E t \in Tasks : threads[t] = available_ips[j] /\ ZeroLossProbe(t)
        /\ \A t \in Tasks :
            ~ZeroLossProbe(t) =>
                /\ threads[t] \notin Range(available_ips)
                /\ \A j \in DOMAIN ip_with_time : ip_with_time[j][1] # threads[t]

C5_Witness ==
    /\ AfterPing
    /\ Len(ip_with_time) > 0
    /\ \E t \in Tasks : world[t].kind = "ok" /\ world[t].loss # 0
                        /\ \E j \in DOMAIN ping_results : ping_results[j].ip = threads[t]

\* C6: after ping, ip_with_time ascends by round-trip time, available_ips is
\* its addresses in its order, and entries of equal time stand in the order
\* their records were inserted into ping_results.
C6_SortedStable ==
    AfterPing =>
        /\ \A j, k \in DOMAIN ip_with_time : j < k => ip_with_time[j][2] <= ip_with_time[k][2]
        /\ Len(available_ips) = Len(ip_with_time)
        /\ \A j \in DOMAIN ip_with_time : available_ips[j] = ip_with_time[j][1]
        /\ \A j, k \in DOMAIN ip_with_time :
            (j < k /\ ip_with_time[j][2] = ip_with_time[k][2]) =>
                \E a, b \in DOMAIN ping_results :
                    /\ a < b
                    /\ ping_results[a].ip = ip_with_time[j][1]
                    /\ ping_results[b].ip = ip_with_time[k][1]

C6_Witness ==
    /\ AfterPing
    /\ \E j, k \in DOMAIN ip_with_time : j < k /\ ip_with_time[j][2] = ip_with_time[k][2]

\* C7 as claimed: two addresses of equal round-trip time stand in the output
\* in the order in which they were given to the stage.
C7_StableInInputOrder ==
    AfterPing =>
        \A j, k \in DOMAIN ip_with_time :
            (j < k /\ ip_with_time[j][2] = ip_with_time[k][2]) =>
                Pos(threads, ip_with_time[j][1]) < Pos(threads, ip_with_time[k][1])

\* C7 as amended: two addresses of equal round-trip time stand in the output
\* in the order in which their Ping threads stored their records, whatever
\* the order in which they were given to the stage.
C7_StableInStoreOrder ==
    AfterPing =>
        \A t, u \in Tasks :
            (/\ t # u
             /\ ZeroLossProbe(t) /\ ZeroLossProbe(u)
             /\ world[t].time = world[u].time
             /\ threads[t] \in Range(available_ips)
             /\ threads[u] \in Range(available_ips))
                => (Pos(available_ips, threads[t]) < Pos(available_ips, threads[u])
                        <=> \E a, b \in DOMAIN ping_results :
                                a < b /\ ping_results[a].ip = threads[t]
                                      /\ ping_results[b].ip = threads[u])

C7_Witness ==
    /\ AfterPing
    /\ \E t, u \in Tasks :
        /\ t < u
        /\ ZeroLossProbe(t) /\ ZeroLossProbe(u)
        /\ world[t].time = world[u].time
        /\ threads[t] \in Range(available_ips)
        /\ threads[u] \in Range(available_ips)
        /\ Pos(available_ips, threads[u]) < Pos(available_ips, threads[t])

(***************************************************************************)
(* Properties of the lookup stage.                                         *)
(***************************************************************************)
ExcludedPrefix(ip) == StartsWith(ip, <<"7", "4", ".">>) \/ StartsWith(ip, <<"1", "7", "3", ".">>)

\* C8: at every instant of resolving the target name, resolved_ips holds no
\* address that starts with '74.' or '173.'.
C8_NoExcludedAddress ==
    \A ip \in resolved_ips : ~ExcludedPrefix(ip)

C8_Witness ==
    /\ stage = "lookup_ips"
    /\ \E t \in Tasks :
        /\ ts[t] \in {"wrote", "done"}
        /\ \E k \in DOMAIN loc[t] : ExcludedPrefix(loc[t][k])
        /\ \E k \in DOMAIN loc[t] : loc[t][k] \in resolved_ips

\* the threads whose transcript has been parsed without an exception
Parsed(t) == ts[t] \in {"got", "locked", "wrote", "done"} /\ world[t].kind = "ok"

\* the lines of a transcript after its first two
AfterHeader(text) ==
    LET lines == Split(text, <<NL>>) IN SubSeq(lines, 3, Len(lines))

\* C9: parse_nslookup_result skips the first line and the line after it and
\* returns the address of every later 'Address: <ip>' line, in order: the
\* addresses the resolver answered, none lost and none taken from the header.
C9_ParseSkipsTwoHeaderLines ==
    \A t \in Tasks :
        (stage = "lookup_ips" /\ Parsed(t)) =>
            /\ loc[t] = AddressesOf(AfterHeader(out[t]))
            /\ loc[t] = world[t].ips

(***************************************************************************)
(* Properties of the report.                                               *)
(***************************************************************************)
Shown == stage = "done"

\* C10: the ordered list show_results reports is the entries of ip_with_time
\* whose address is in reachable, all of them and only them, in the order of
\* ip_with_time, and the count it reports is their number.
C10_ReportIsReachableSubsequence ==
    Shown =>
        /\ \A j \in DOMAIN report.ordered :
            /\ \E k \in DOMAIN ip_with_time : ip_with_time[k] = report.ordered[j]
            /\ report.ordered[j][1] \in Range(reachable)
        /\ \A k \in DOMAIN ip_with_time :
            ip_with_time[k][1] \in Range(reachable) =>
                \E j \in DOMAIN report.ordered : report.ordered[j] = ip_with_time[k]
        /\ \A j, k \in DOMAIN report.ordered :
            j < k => Pos(ip_with_time, report.ordered[j]) < Pos(ip_with_time, report.ordered[k])
        /\ report.count = Len(report.ordered)
        /\ report.count = Cardinality({k \in DOMAIN ip_with_time :
                                        ip_with_time[k][1] \in Range(reachable)})

C10_Witness ==
    /\ Shown
    /\ report.kind = "list"
    /\ Len(ip_with_time) = 2
    /\ ip_with_time[1][2] < ip_with_time[2][2]
    /\ ip_with_time[1][1] \notin Range(reachable)
    /\ report.ordered = <<ip_with_time[2]>>

(***************************************************************************)
(* Properties of FindMeIP.run, checked on the whole pipeline.              *)
(***************************************************************************)
\* get_dns_servers has returned and left dns_servers empty
HarvestedNothing == stage # "get_dns_servers" /\ dns_servers = <<>>

\* C11: when harvesting yields no resolver, every later stage runs an empty
\* batch and leaves its collection empty, no exception ends run, and the
\* report says that no servers were found.
C11_EmptyFlowsThrough ==
    HarvestedNothing =>
        /\ resolved_ips = {} /\ ping_results = <<>> /\ ip_with_time = <<>>
        /\ available_ips = <<>> /\ reachable = <<>>
        /\ pc # "error"
        /\ (InBatch /\ pc \in {"launch", "join", "returned"}) => threads = <<>>
        /\ stage = "done" => report.kind = "none"

C11_Witness ==
    /\ stage = "done"
    /\ dns_servers = <<>>
    /\ report.kind = "none"

\* a state from which run cannot reach show_results: run_threads has raised,
\* or a thread it will join waits for a lock that is never released
DeadEnd == pc = "error" \/ \E u \in Tasks : Stuck(u)

\* C12: nothing in the pipeline is fatal: whatever the number of tasks of a
\* stage and whatever the outcomes of the external calls and of the parsing,
\* run is never in a state from which it cannot go on to show_results.
C12_NoFatalError == ~DeadEnd

NoneRunning == \A t \in Tasks : ~Alive(t)

\* C13: the stages of run are strictly sequential: run moves to the next
\* stage, and a stage reads its input and builds its threads, only when no
\* thread of the batch before is running, and each collection is written
\* only during its own stage.
C13_StagesSequential ==
    [][/\ stage' # stage => NoneRunning
       /\ threads' # threads => NoneRunning
       /\ dns_servers' # dns_servers => (stage = "get_dns_servers" /\ stage' = stage)
       /\ resolved_ips' # resolved_ips => (stage = "lookup_ips" /\ stage' = stage)
       /\ ping_results' # ping_results => (stage = "ping" /\ stage' = stage)
       /\ reachable' # reachable => (stage = "check_service" /\ stage' = stage)]_vars

C13_Witness ==
    /\ stage = "lookup_ips"
    /\ dns_servers # <<>>
    /\ \E t \in Tasks : ts[t] = "wrote"
    /\ \E t \in Tasks : ts[t] = "run"

Writing == {t \in Tasks : ts[t] \in {"locked", "wrote"}}

\* C14: the threads of a batch share one lock; every write of a thread into
\* the shared collection of its stage is made by the thread that holds the
\* lock, two threads are never inside their write section together, and no
\* thread holds the lock while it waits for its request, subprocess or
\* connection.
C14_WritesUnderOneLock ==
    /\ [](/\ Cardinality(Writing) <= 1
          /\ \A t \in Writing : lock = t
          /\ \A t \in Tasks : ts[t] \in {"new", "run", "got"} => lock # t)
    /\ [][(\/ dns_servers' # dns_servers
           \/ resolved_ips' # resolved_ips
           \/ ping_results' # ping_results
           \/ reachable' # reachable)
          => \E t \in Tasks : /\ lock = t /\ lock' = t
                              /\ ts[t] = "locked"
                              /\ ts'[t] \in {"wrote", "raised"}]_vars

C14_Witness ==
    /\ stage = "check_service"
    /\ \E t, u \in Tasks : /\ ts[t] = "wrote" /\ lock = t
                           /\ ts[u] = "got"
                           /\ reachable = <<threads[t]>>

Unparsable(t) == stage = "ping" /\ ts[t] = "raised" /\ world[t].kind = "garbled"

\* C15: when parse_ping_result cannot parse the output for one address, that
\* address gets no record, and every other Ping thread of the batch can
\* still store its own: none of them waits for a lock that the failed
\* thread will never release.
C15_MalformedOutputDropsOnlyItself ==
    \A t \in Tasks : Unparsable(t) =>
        /\ \A j \in DOMAIN ping_results : ping_results[j].ip # threads[t]
        /\ \A u \in Tasks \ {t} : ~(world[u].kind = "ok" /\ ts[u] = "got" /\ lock = t)

AfterHarvest == stage = "lookup_ips" /\ pc = "enter"

Count(list, x) == Cardinality({k \in DOMAIN list : list[k] = x})

Answered(t) ==
    IF world[t].kind = "ok"
    THEN DottedIps(SelectSeq(world[t].servers, LAMBDA e : e.has_ip))
    ELSE <<>>

RECURSIVE AnsweredCount(_, _)
AnsweredCount(n, ip) ==
    IF n = 0 THEN 0 ELSE Count(Answered(n), ip) + AnsweredCount(n - 1, ip)

\* C16: after get_dns_servers, dns_servers holds exactly the dotted ip
\* values of the regions whose request succeeded, each as often as the
\* regions listed it; a region whose request failed adds nothing and takes
\* nothing away from the others.
C16_HarvestIsExact ==
    AfterHarvest =>
        \A ip \in Range(dns_servers) \cup UNION {Range(Answered(t)) : t \in Tasks} :
            Count(dns_servers, ip) = AnsweredCount(Len(threads), ip)

AfterCheck == stage \in {"show_results", "done"}

Handshaken == {threads[t] : t \in {u \in Tasks : world[u].kind = "ok"}}

\* C17: after check_service, reachable holds exactly the addresses of
\* available_ips whose handshake completed, each once; a certificate error
\* or a timeout ends its thread normally, without the lock, and adds nothing.
C17_ReachableIsHandshaken ==
    /\ AfterCheck =>
        /\ Range(reachable) = Handshaken
        /\ Range(reachable) \subseteq Range(available_ips)
        /\ \A j, k \in DOMAIN reachable : j # k => reachable[j] # reachable[k]
    /\ stage = "check_service" =>
        \A t \in Tasks : world[t].kind \in {"cert", "timeout"} =>
            /\ ts[t] = "done" /\ lock # t
            /\ threads[t] \notin Range(reachable)

C17_Witness ==
    /\ AfterCheck
    /\ \E t, u \in Tasks : /\ world[t].kind = "ok"
                           /\ world[u].kind \in {"cert", "timeout"}
                           /\ reachable = <<threads[t]>>
                           /\ t > u

AfterLookup == stage = "ping" /\ pc = "enter"

Answers ==
    UNION {{ip \in Range(world[t].ips) : ~ExcludedPrefix(ip)} :
              t \in {u \in Tasks : world[u].kind = "ok"}}

\* C18: after lookup_ips, resolved_ips is the set of the non-excluded
\* addresses that the resolvers whose query succeeded answered, whatever the
\* order in which the lookups completed; a resolver whose process failed
\* adds nothing.
C18_ResolvedIsUnionOfAnswers ==
    AfterLookup => resolved_ips = Answers

\* C19: the concatenated line of the report lists the addresses of the
\* ordered list, in the same ascending order of delay, whatever the order
\* in which the ServiceCheck threads completed, and the two counts of the
\* report are equal.
C19_LineFollowsLatencyOrder ==
    (Shown /\ report.kind = "list") =>
        /\ report.line = StrJoin([j \in DOMAIN report.ordered |-> report.ordered[j][1]], <<"|">>)
        /\ report.count = report.count2

\* C20: no thread ends while it holds the lock of its batch: on every path
\* through a guarded section, the ones where the guarded code raises
\* included, the acquire is followed by a release, so the lock is free when
\* run_threads returns.
C20_NoThreadEndsWithLock ==
    /\ \A t \in Tasks : Finished(t) => lock # t
    /\ pc = "returned" => lock = 0

====
